---- MODULE Spec2Model ----
(***************************************************************************)
(* A model of pin-rc: reference counted pointers without heap allocation.   *)
(* A pinned storage (PinRcGenericStorage) holds the value and the count;    *)
(* handles (PinRcGeneric) point into it.  Storage 1 is a PinArcStorage      *)
(* (AtomicUsize counter, handles may travel between threads), storage 2 is  *)
(* a PinRcStorage (Cell<usize> counter, confined to the owner thread).      *)
(*                                                                         *)
(* Handles are interchangeable, so the model keeps, per thread and storage, *)
(* the number of live handles the thread holds.  Every counter operation    *)
(* (fetch_add, fetch_sub, load) is one atomic step; what a function does    *)
(* with the value it read is a later step of the same thread when it has a  *)
(* global effect (abort, returning the handle, reclaiming the record).      *)
(* A load returns the latest value of the counter's modification order.     *)
(***************************************************************************)
EXTENDS Integers, FiniteSets, Sequences, TLC

\* ------------------------------------------------------------- bounds
NumThreads == 2
CounterBits == 3
MaxHandles == 3
MaxValue == 1
MaxPanics == 2

Threads == 1..NumThreads
Owner == 1
Storages == {1, 2}
Values == 0..MaxValue

\* lib.rs: PinArcStorage = PinRcGenericStorage<T, AtomicUsize>,
\*         PinRcStorage  = PinRcGenericStorage<T, Cell<usize>>
Kind(s) == IF s = 1 THEN "arc" ELSE "rc"
ArcStorages == {s \in Storages : Kind(s) = "arc"}

\* usize, narrowed to CounterBits bits
Modulus == 2 ^ CounterBits
USIZE_MAX == Modulus - 1
MAX_REFCOUNT == USIZE_MAX \div 2

VARIABLES
    st,          \* st[s]: "uninit", "unpinned", "pinned", "reclaimed"
    count,       \* count[s]: Inner.count
    value,       \* value[s]: Inner.value
    mutref,      \* mutref[s]: a Pin<&mut T> returned by get_pin_mut is alive
    handles,     \* handles[t][s]: live PinRcGeneric held by thread t into s
    pc,          \* pc[t]: where thread t is inside an operation
    aborted,     \* the process was terminated by abort()
    ret,         \* what the last step did and returned
    known,       \* known[t]: threads all of whose accesses to the arc value
                 \*   through handles happen-before t's current point
    rel,         \* threads all of whose accesses to the arc value through
                 \*   handles are published by the counter's release sequence
    forgotten,   \* forgotten[s]: handles leaked with mem::forget (history)
    ever,        \* ever[s]: a handle of s was handed out (history)
    last_written, \* last_written[s]: last value written to s (history)
    accessed,    \* threads that read the arc value through a handle (history)
    unsafe_disable_abort, \* the crate is built with feature unsafe_disable_abort
    failed       \* failed[s]: increments of s that hit the overflow guard (history)

vars == <<st, count, value, mutref, handles, pc, aborted, ret, known, rel,
          forgotten, ever, last_written, accessed, unsafe_disable_abort,
          failed>>

Idle == [at |-> "idle", s |-> 0, old |-> 0, via |-> "none"]

Ret(op, s, ok, val) == [op |-> op, s |-> s, ok |-> ok, val |-> val]
\* a step that returns nothing to the caller
NoRet == Ret("none", 0, TRUE, 0)

\* number of live handles into s, over all threads
RECURSIVE SumUpTo(_, _)
SumUpTo(f, n) == IF n = 0 THEN 0 ELSE f[n] + SumUpTo(f, n - 1)
Live(s) == SumUpTo([t \in Threads |-> handles[t][s]], NumThreads)

\* increments applied whose handle has not been returned yet
InFlight(s) == Cardinality({t \in Threads : pc[t].at = "create_handle" /\ pc[t].s = s})

\* handles alive or being made, over all storages
RECURSIVE Total(_)
Total(S) == IF S = {} THEN 0
            ELSE LET s == CHOOSE x \in S : TRUE
                 IN Live(s) + InFlight(s) + Total(S \ {s})

\* ------------------------------------------------ the counter (radium)
\* a fetch_add whose write is lost
MutFetchAddLost(c) == c
\* count.fetch_add(1, Relaxed): the new value
\* an increment by two
MutFetchAddTwo(c) == (c + 2) % Modulus
FetchAdd(c) == (c + 1) % Modulus
\* a drop that does not decrement
MutFetchSubNone(c) == c
\* a drop that decrements twice
MutFetchSubTwo(c) == (c - 2) % Modulus
\* count.fetch_sub(1, Release): the new value
FetchSub(c) == (c - 1) % Modulus
\* a storage that starts with a count of one
MutNewCountOne == 0 + 1
\* C::new(0)
NewCount == 0
\* an overflow guard that compares with usize::MAX instead of its half
MutIsOverflowAtMax(old) == old > USIZE_MAX
\* if old_count > MAX_REFCOUNT { abort() }
IsOverflow(old) == old > MAX_REFCOUNT
\* a gate that lets one handle pass
MutGrantsAtMostOne(c) == c <= 1
\* a gate with the test inverted
MutGrantsNonZero(c) == c # 0
\* count.load(Acquire) == 0
GrantsMut(c) == c = 0
\* a storage drop without the check
MutDropNeverAborts(c) == FALSE
\* a storage drop with the test inverted
MutDropAbortsAtZero(c) == c = 0
\* count.load(Acquire) != 0
DropAborts(c) == c # 0
\* the decrement with Relaxed ordering: nothing is published
MutReleaseRelaxed(r, k) == r
\* fetch_sub(1, Release) by a thread that knows k: the counter's release
\* sequence, which published r, now also publishes k
ReleaseSync(r, k) == r \cup k
\* the load with Relaxed ordering: nothing is acquired
MutAcquireRelaxed(k, r) == k
\* load(Acquire) by a thread that knows k, reading from the release sequence
\* that publishes r
AcquireSync(k, r) == k \cup r
\* Inner::count: a Relaxed load
\* a ref_count that leaves out the handle, or the storage, it is called on
MutInnerCountOthers(s) == count[s] - 1
InnerCount(s) == count[s]
\* Inner::value
InnerValue(s) == value[s]

\* the state before any storage is made, in a build with the feature off
\* (feature = FALSE) or on
InitBuild(feature) ==
    /\ unsafe_disable_abort = feature
    /\ failed = [s \in Storages |-> 0]
    /\ st = [s \in Storages |-> "uninit"]
    /\ count = [s \in Storages |-> 0]
    /\ value = [s \in Storages |-> 0]
    /\ mutref = [s \in Storages |-> FALSE]
    /\ handles = [t \in Threads |-> [s \in Storages |-> 0]]
    /\ pc = [t \in Threads |-> Idle]
    /\ aborted = FALSE
    /\ ret = NoRet
    /\ known = [t \in Threads |-> Threads]
    /\ rel = Threads
    /\ forgotten = [s \in Storages |-> 0]
    /\ ever = [s \in Storages |-> FALSE]
    /\ last_written = [s \in Storages |-> 0]
    /\ accessed = {}

Init == InitBuild(FALSE)

\* a build that ignores the feature and always terminates
MutTerminatesAlways == TRUE
\* abort(): with the feature a plain panic!(), which unwinds; without it a panic
\* inside an extern "C" fn, which terminates the process
Terminates == ~unsafe_disable_abort

\* the owner thread may start an operation on the storage itself
\* an owner that waits until no other thread is inside an operation
MutOwnerReadyWaits == ~aborted /\ \A t \in Threads : pc[t] = Idle
OwnerReady == ~aborted /\ pc[Owner] = Idle
Alive(s) == st[s] \in {"unpinned", "pinned"}
\* a handle to s points at a record that still exists
Valid(s) == st[s] # "reclaimed"
\* increments that failed, or have been made and will fail, at the guard
Panics ==
    Cardinality({t \in Threads : pc[t].at = "create_handle" /\ IsOverflow(pc[t].old)})
    + SumUpTo([i \in 1..Cardinality(Storages) |-> failed[i]], Cardinality(Storages))

\* PinRcGenericStorage::new(value)
New(s, v) ==
    /\ OwnerReady
    /\ st[s] = "uninit"
    /\ st' = [st EXCEPT ![s] = "unpinned"]
    /\ count' = [count EXCEPT ![s] = NewCount]
    /\ value' = [value EXCEPT ![s] = v]
    /\ last_written' = [last_written EXCEPT ![s] = v]
    /\ ret' = Ret("new", s, TRUE, v)
    /\ UNCHANGED <<mutref, handles, pc, aborted, known, rel, forgotten, ever>>
    /\ UNCHANGED <<accessed, unsafe_disable_abort, failed>>

\* pin!(storage): from here on the storage has a fixed address
PinStorage(s) ==
    /\ OwnerReady
    /\ st[s] = "unpinned"
    /\ st' = [st EXCEPT ![s] = "pinned"]
    /\ ret' = NoRet
    /\ UNCHANGED <<count, value, mutref, handles, pc, aborted, known, rel,
                   forgotten, ever, last_written>>
    /\ UNCHANGED <<accessed, unsafe_disable_abort, failed>>

\* Inner::create_handle, first half: let old_count = count.fetch_add(1, Relaxed)
InnerCreateHandleAdd(t, s, via) ==
    /\ Total(Storages) < MaxHandles
    /\ (unsafe_disable_abort /\ IsOverflow(count[s])) => Panics < MaxPanics
    /\ count' = [count EXCEPT ![s] = FetchAdd(count[s])]
    /\ pc' = [pc EXCEPT ![t] = [at |-> "create_handle", s |-> s,
                                old |-> count[s], via |-> via]]
    /\ ret' = NoRet
    /\ UNCHANGED <<st, value, mutref, handles, aborted, known, rel,
                   forgotten, ever, last_written>>
    /\ UNCHANGED <<accessed, unsafe_disable_abort, failed>>

\* PinRcGenericStorage::create_handle(self: Pin<&Self>)
CreateHandle(s) ==
    /\ OwnerReady
    /\ st[s] = "pinned"
    /\ ~mutref[s]
    /\ InnerCreateHandleAdd(Owner, s, "create_handle")

\* Clone for PinRcGeneric
CloneHandle(t, s) ==
    /\ ~aborted
    /\ pc[t] = Idle
    /\ handles[t][s] > 0
    /\ Valid(s)
    /\ InnerCreateHandleAdd(t, s, "clone")

\* a create_handle that takes its increment back when the guard is hit
MutCreateHandleReturnRollsBack(t) ==
    /\ ~aborted
    /\ pc[t].at = "create_handle"
    /\ pc' = [pc EXCEPT ![t] = Idle]
    /\ IF IsOverflow(pc[t].old)
         THEN /\ aborted' = Terminates
              /\ count' = [count EXCEPT ![pc[t].s] = FetchSub(@)]
              /\ failed' = [failed EXCEPT ![pc[t].s] = @ + 1]
              /\ ret' = Ret(pc[t].via, pc[t].s, FALSE, pc[t].old)
              /\ UNCHANGED <<handles, ever>>
         ELSE /\ handles' = [handles EXCEPT ![t][pc[t].s] = @ + 1]
              /\ ever' = [ever EXCEPT ![pc[t].s] = TRUE]
              /\ ret' = Ret(pc[t].via, pc[t].s, TRUE, pc[t].old)
              /\ UNCHANGED <<aborted, failed, count>>
    /\ UNCHANGED <<st, value, mutref, known, rel, forgotten, last_written>>
    /\ UNCHANGED <<accessed, unsafe_disable_abort>>

\* Inner::create_handle, second half: the overflow check, then the handle
CreateHandleReturn(t) ==
    /\ ~aborted
    /\ pc[t].at = "create_handle"
    /\ pc' = [pc EXCEPT ![t] = Idle]
    /\ IF IsOverflow(pc[t].old)
         THEN /\ aborted' = Terminates
              /\ failed' = [failed EXCEPT ![pc[t].s] = @ + 1]
              /\ ret' = Ret(pc[t].via, pc[t].s, FALSE, pc[t].old)
              /\ UNCHANGED <<handles, ever>>
         ELSE /\ handles' = [handles EXCEPT ![t][pc[t].s] = @ + 1]
              /\ ever' = [ever EXCEPT ![pc[t].s] = TRUE]
              /\ ret' = Ret(pc[t].via, pc[t].s, TRUE, pc[t].old)
              /\ UNCHANGED <<aborted, failed>>
    /\ UNCHANGED <<st, count, value, mutref, known, rel, forgotten, last_written>>
    /\ UNCHANGED <<accessed, unsafe_disable_abort>>

\* Drop for PinRcGeneric: let c = count.fetch_sub(1, Release); debug_assert!(c > 0)
DropHandle(t, s) ==
    /\ ~aborted
    /\ pc[t] = Idle
    /\ handles[t][s] > 0
    /\ Valid(s)
    /\ handles' = [handles EXCEPT ![t][s] = @ - 1]
    /\ count' = [count EXCEPT ![s] = FetchSub(count[s])]
    /\ rel' = IF Kind(s) = "arc" THEN ReleaseSync(rel, known[t]) ELSE rel
    /\ ret' = Ret("drop_handle", s, count[s] > 0, count[s])
    /\ UNCHANGED <<st, value, mutref, pc, aborted, known, forgotten, ever,
                   last_written>>
    /\ UNCHANGED <<accessed, unsafe_disable_abort, failed>>

\* core::mem::forget(handle): the handle is gone and its Drop never runs
ForgetHandle(t, s) ==
    /\ ~aborted
    /\ pc[t] = Idle
    /\ handles[t][s] > 0
    /\ handles' = [handles EXCEPT ![t][s] = @ - 1]
    /\ forgotten' = [forgotten EXCEPT ![s] = @ + 1]
    /\ ret' = NoRet
    /\ UNCHANGED <<st, count, value, mutref, pc, aborted, known, rel, ever,
                   last_written>>
    /\ UNCHANGED <<accessed, unsafe_disable_abort, failed>>

\* unsafe impl Send for PinArc<T>: thread t hands a handle to thread u; the
\* hand-over orders what t did before it before what u does after it
SendHandle(t, u, s) ==
    /\ ~aborted
    /\ Kind(s) = "arc"
    /\ t # u
    /\ pc[t] = Idle
    /\ pc[u] = Idle
    /\ handles[t][s] > 0
    /\ handles' = [handles EXCEPT ![t][s] = @ - 1, ![u][s] = @ + 1]
    /\ known' = [known EXCEPT ![u] = @ \cup known[t]]
    /\ ret' = NoRet
    /\ UNCHANGED <<st, count, value, mutref, pc, aborted, rel, forgotten,
                   ever, last_written>>
    /\ UNCHANGED <<accessed, unsafe_disable_abort, failed>>

\* Deref for PinRcGeneric: reads the value through a handle
HandleDeref(t, s) ==
    /\ ~aborted
    /\ pc[t] = Idle
    /\ handles[t][s] > 0
    /\ Valid(s)
    /\ ret' = Ret("handle_deref", s, TRUE, InnerValue(s))
    /\ UNCHANGED <<st, count, value, mutref, handles, pc, aborted, known, rel,
                   forgotten, ever, last_written>>
    /\ UNCHANGED <<accessed, unsafe_disable_abort, failed>>

\* Deref for PinRcGeneric on a PinArc, as an event of the memory model: a new
\* access by t, which nothing published or acquired so far covers
HandleDerefSync(t, s) ==
    /\ ~aborted
    /\ pc[t] = Idle
    /\ handles[t][s] > 0
    /\ Valid(s)
    /\ Kind(s) = "arc"
    /\ ret' = Ret("handle_deref", s, TRUE, InnerValue(s))
    /\ known' = [u \in Threads |-> IF u = t THEN known[u] ELSE known[u] \ {t}]
    /\ rel' = rel \ {t}
    /\ UNCHANGED <<st, count, value, mutref, handles, pc, aborted, forgotten,
                   ever, last_written>>
    /\ accessed' = accessed \cup {t}
    /\ UNCHANGED <<unsafe_disable_abort, failed>>

\* a ref_count that leaves out the handle it is called on
MutHandleRefCountOthers(t, s) ==
    /\ ~aborted
    /\ pc[t] = Idle
    /\ handles[t][s] > 0
    /\ Valid(s)
    /\ ret' = Ret("handle_ref_count", s, TRUE, InnerCount(s) - 1)
    /\ UNCHANGED <<st, count, value, mutref, handles, pc, aborted, known, rel,
                   forgotten, ever, last_written>>
    /\ UNCHANGED <<accessed, unsafe_disable_abort, failed>>

\* PinRcGeneric::ref_count
HandleRefCount(t, s) ==
    /\ ~aborted
    /\ pc[t] = Idle
    /\ handles[t][s] > 0
    /\ Valid(s)
    /\ ret' = Ret("handle_ref_count", s, TRUE, InnerCount(s))
    /\ UNCHANGED <<st, count, value, mutref, handles, pc, aborted, known, rel,
                   forgotten, ever, last_written>>
    /\ UNCHANGED <<accessed, unsafe_disable_abort, failed>>

\* Deref for PinRcGenericStorage
StorageDeref(s) ==
    /\ OwnerReady
    /\ Alive(s)
    /\ ~mutref[s]
    /\ ret' = Ret("storage_deref", s, TRUE, InnerValue(s))
    /\ UNCHANGED <<st, count, value, mutref, handles, pc, aborted, known, rel,
                   forgotten, ever, last_written>>
    /\ UNCHANGED <<accessed, unsafe_disable_abort, failed>>

\* a ref_count that reads the counter with a fetch_add
MutStorageRefCountAdds(s) ==
    /\ OwnerReady
    /\ Alive(s)
    /\ ~mutref[s]
    /\ count' = [count EXCEPT ![s] = FetchAdd(count[s])]
    /\ ret' = Ret("storage_ref_count", s, TRUE, InnerCount(s))
    /\ UNCHANGED <<st, value, mutref, handles, pc, aborted, known, rel,
                   forgotten, ever, last_written>>
    /\ UNCHANGED <<accessed, unsafe_disable_abort, failed>>

\* PinRcGenericStorage::ref_count
StorageRefCount(s) ==
    /\ OwnerReady
    /\ Alive(s)
    /\ ~mutref[s]
    /\ ret' = Ret("storage_ref_count", s, TRUE, InnerCount(s))
    /\ UNCHANGED <<st, count, value, mutref, handles, pc, aborted, known, rel,
                   forgotten, ever, last_written>>
    /\ UNCHANGED <<accessed, unsafe_disable_abort, failed>>

\* PinRcGenericStorage::get_pin_mut(self: Pin<&mut Self>) -> Option<Pin<&mut T>>
GetPinMut(s) ==
    /\ OwnerReady
    /\ st[s] = "pinned"
    /\ ~mutref[s]
    /\ known' = IF Kind(s) = "arc"
                  THEN [known EXCEPT ![Owner] = AcquireSync(@, rel)]
                  ELSE known
    /\ IF GrantsMut(count[s])
         THEN /\ mutref' = [mutref EXCEPT ![s] = TRUE]
              /\ ret' = Ret("get_pin_mut", s, TRUE, InnerValue(s))
         ELSE /\ ret' = Ret("get_pin_mut", s, FALSE, 0)
              /\ UNCHANGED mutref
    /\ UNCHANGED <<st, count, value, handles, pc, aborted, rel, forgotten,
                   ever, last_written>>
    /\ UNCHANGED <<accessed, unsafe_disable_abort, failed>>

\* a write through the Pin<&mut T> that get_pin_mut returned
WriteValue(s, v) ==
    /\ OwnerReady
    /\ mutref[s]
    /\ value' = [value EXCEPT ![s] = v]
    /\ last_written' = [last_written EXCEPT ![s] = v]
    /\ ret' = NoRet
    /\ UNCHANGED <<st, count, mutref, handles, pc, aborted, known, rel,
                   forgotten, ever>>
    /\ UNCHANGED <<accessed, unsafe_disable_abort, failed>>

\* the Pin<&mut T> goes out of scope
ReleaseMut(s) ==
    /\ OwnerReady
    /\ mutref[s]
    /\ mutref' = [mutref EXCEPT ![s] = FALSE]
    /\ ret' = NoRet
    /\ UNCHANGED <<st, count, value, handles, pc, aborted, known, rel,
                   forgotten, ever, last_written>>
    /\ UNCHANGED <<accessed, unsafe_disable_abort, failed>>

\* Drop for PinRcGenericStorage: if count.load(Acquire) != 0 { abort() }
\* A panic that unwinds out of drop still releases the storage's memory.
DropStorage(s) ==
    /\ OwnerReady
    /\ Alive(s)
    /\ ~mutref[s]
    /\ known' = IF Kind(s) = "arc"
                  THEN [known EXCEPT ![Owner] = AcquireSync(@, rel)]
                  ELSE known
    /\ IF DropAborts(count[s])
         THEN /\ aborted' = Terminates
              /\ ret' = Ret("drop_storage", s, FALSE, count[s])
              /\ IF Terminates
                   THEN UNCHANGED pc
                   ELSE pc' = [pc EXCEPT ![Owner] = [at |-> "reclaim", s |-> s,
                                                    old |-> 0, via |-> "none"]]
         ELSE /\ pc' = [pc EXCEPT ![Owner] = [at |-> "reclaim", s |-> s,
                                             old |-> 0, via |-> "none"]]
              /\ ret' = Ret("drop_storage", s, TRUE, count[s])
              /\ UNCHANGED aborted
    /\ UNCHANGED <<st, count, value, mutref, handles, rel, forgotten, ever,
                   last_written>>
    /\ UNCHANGED <<accessed, unsafe_disable_abort, failed>>

\* after drop returned, the record's memory is given back
Reclaim ==
    /\ ~aborted
    /\ pc[Owner].at = "reclaim"
    /\ st' = [st EXCEPT ![pc[Owner].s] = "reclaimed"]
    /\ pc' = [pc EXCEPT ![Owner] = Idle]
    /\ ret' = Ret("reclaim", pc[Owner].s, TRUE, 0)
    /\ UNCHANGED <<count, value, mutref, handles, aborted, known, rel,
                   forgotten, ever, last_written>>
    /\ UNCHANGED <<accessed, unsafe_disable_abort, failed>>

\* clone, drop, deref or ref_count through a handle whose record has been
\* reclaimed: undefined behaviour, so the memory that held the count may change
\* to anything, the handle may or may not be used up, and the process may die;
\* what the caller reads is arbitrary and is not recorded
UseAfterFree(t, s) ==
    /\ ~aborted
    /\ pc[t] = Idle
    /\ handles[t][s] > 0
    /\ ~Valid(s)
    /\ \E crash \in BOOLEAN, c \in 0..USIZE_MAX, gone \in 0..1 :
        /\ aborted' = crash
        /\ count' = [count EXCEPT ![s] = c]
        /\ handles' = [handles EXCEPT ![t][s] = @ - gone]
        /\ ret' = Ret("use_after_free", s, FALSE, 0)
    /\ UNCHANGED <<st, value, mutref, pc, known, rel, forgotten, ever,
                   last_written>>
    /\ UNCHANGED <<accessed, unsafe_disable_abort, failed>>

\* the operations of the crate, called by safe code that drops every handle
Next ==
    \/ \E s \in Storages, v \in Values : New(s, v)
    \/ \E s \in Storages : PinStorage(s)
    \/ \E s \in Storages : CreateHandle(s)
    \/ \E t \in Threads, s \in Storages : CloneHandle(t, s)
    \/ \E t \in Threads : CreateHandleReturn(t)
    \/ \E t \in Threads, s \in Storages : DropHandle(t, s)
    \/ \E t \in Threads, u \in Threads, s \in Storages : SendHandle(t, u, s)
    \/ \E t \in Threads, s \in Storages : HandleDeref(t, s)
    \/ \E t \in Threads, s \in Storages : HandleRefCount(t, s)
    \/ \E s \in Storages : StorageDeref(s)
    \/ \E s \in Storages : StorageRefCount(s)
    \/ \E s \in Storages : GetPinMut(s)
    \/ \E s \in Storages, v \in Values : WriteValue(s, v)
    \/ \E s \in Storages : ReleaseMut(s)
    \/ \E s \in Storages : DropStorage(s)
    \/ Reclaim

Spec == Init /\ [][Next]_vars

\* the counting protocol with callers that may also leak handles; the value
\* plays no part in it, so every storage holds the same one
NextLeak ==
    \/ \E s \in Storages : New(s, MaxValue)
    \/ \E s \in Storages : PinStorage(s)
    \/ \E s \in Storages : CreateHandle(s)
    \/ \E t \in Threads, s \in Storages : CloneHandle(t, s)
    \/ \E t \in Threads : CreateHandleReturn(t)
    \/ \E t \in Threads, s \in Storages : DropHandle(t, s)
    \/ \E t \in Threads, s \in Storages : ForgetHandle(t, s)
    \/ \E t \in Threads, u \in Threads, s \in Storages : SendHandle(t, u, s)
    \/ \E s \in Storages : GetPinMut(s)
    \/ \E s \in Storages : ReleaseMut(s)
    \/ \E s \in Storages : DropStorage(s)
    \/ Reclaim

SpecLeak == Init /\ [][NextLeak]_vars

\* the counting protocol on the PinArcStorage, with the accesses through
\* handles as events of the memory model
NextSync ==
    \/ \E s \in ArcStorages, v \in Values : New(s, v)
    \/ \E s \in ArcStorages : PinStorage(s)
    \/ \E s \in ArcStorages : CreateHandle(s)
    \/ \E t \in Threads, s \in ArcStorages : CloneHandle(t, s)
    \/ \E t \in Threads : CreateHandleReturn(t)
    \/ \E t \in Threads, s \in ArcStorages : DropHandle(t, s)
    \/ \E t \in Threads, u \in Threads, s \in ArcStorages : SendHandle(t, u, s)
    \/ \E t \in Threads, s \in ArcStorages : HandleDerefSync(t, s)
    \/ \E s \in ArcStorages : GetPinMut(s)
    \/ \E s \in ArcStorages : ReleaseMut(s)
    \/ \E s \in ArcStorages : DropStorage(s)
    \/ Reclaim

SpecSync == Init /\ [][NextSync]_vars

\* the counting protocol on the PinArcStorage in a build with the feature
\* unsafe_disable_abort, where a failed check unwinds and the program goes on
InitPanic == InitBuild(TRUE)

NextPanic ==
    \/ \E s \in ArcStorages : New(s, MaxValue)
    \/ \E s \in ArcStorages : PinStorage(s)
    \/ \E s \in ArcStorages : CreateHandle(s)
    \/ \E t \in Threads, s \in ArcStorages : CloneHandle(t, s)
    \/ \E t \in Threads : CreateHandleReturn(t)
    \/ \E t \in Threads, s \in ArcStorages : DropHandle(t, s)
    \/ \E t \in Threads, s \in ArcStorages : ForgetHandle(t, s)
    \/ \E t \in Threads, u \in Threads, s \in ArcStorages : SendHandle(t, u, s)
    \/ \E s \in ArcStorages : DropStorage(s)
    \/ Reclaim
    \/ \E t \in Threads, s \in ArcStorages : UseAfterFree(t, s)

SpecPanic == InitPanic /\ [][NextPanic]_vars

\* ------------------------------------------------------------- claims

\* C1: after any finite sequence of completed create_handle, clone and handle
\* drop operations on a pinned storage, its count equals the number of live
\* handles derived from it.
C1_CountEqualsLive ==
    \A s \in Storages :
        (st[s] = "pinned" /\ InFlight(s) = 0) => count[s] = Live(s)

\* a drop that followed a clone left one live handle and a count of one
C1_Witness ==
    /\ ret.op = "drop_handle"
    /\ ret.val = 2
    /\ st[ret.s] = "pinned"
    /\ InFlight(ret.s) = 0
    /\ Live(ret.s) = 1

\* C2: no handle ever references a reclaimed record: a storage dropped with a
\* nonzero count terminates the process at the check, before the record is
\* reclaimed.
C2_NoDangling ==
    /\ \A s \in Storages : st[s] = "reclaimed" => Live(s) + InFlight(s) = 0
    /\ (ret.op = "drop_storage" /\ ret.val # 0) =>
           /\ aborted
           /\ st[ret.s] # "reclaimed"
           /\ pc[Owner].at # "reclaim"

\* a storage was dropped while a handle into it was alive
C2_Witness ==
    /\ ret.op = "drop_storage"
    /\ ~ret.ok
    /\ Live(ret.s) > 0
    /\ aborted

\* C3: get_pin_mut yields exclusive access if and only if the count is 0 at
\* the check; while a handle of the storage is alive it yields nothing.
C3_GetPinMutIffZero ==
    ret.op = "get_pin_mut" =>
        /\ ret.ok <=> count[ret.s] = 0
        /\ ret.ok <=> mutref[ret.s]
        /\ Live(ret.s) > 0 => ~ret.ok

\* get_pin_mut refused while a handle was alive
C3_Witness ==
    /\ ret.op = "get_pin_mut"
    /\ ~ret.ok
    /\ Live(ret.s) > 0

\* C4: exclusive access granted by get_pin_mut never coexists with a handle of
\* the same storage: while it is held the count is 0 and no create_handle or
\* clone is under way.
C4_ExclusiveNoHandles ==
    \A s \in Storages :
        mutref[s] => count[s] = 0 /\ Live(s) = 0 /\ InFlight(s) = 0

\* exclusive access is held on a storage that had handles before, while the
\* other storage has a live handle
C4_Witness ==
    \E s \in Storages :
        /\ mutref[s]
        /\ ever[s]
        /\ \E s2 \in Storages \ {s} : Live(s2) > 0

\* C5: after the last live handle of a storage was dropped, get_pin_mut
\* returns exclusive access, and the value it exposes is the last one written.
C5_AfterLastDrop ==
    (ret.op = "get_pin_mut" /\ ever[ret.s] /\ Live(ret.s) = 0) =>
        /\ ret.ok
        /\ ret.val = last_written[ret.s]

\* get_pin_mut on the PinRcStorage after its last handle was dropped exposes
\* the nonzero value it holds
C5_Witness ==
    /\ ret.op = "get_pin_mut"
    /\ ret.ok
    /\ ever[ret.s]
    /\ ret.val = 1
    /\ Kind(ret.s) = "rc"

\* C6: dropping a storage whose count is 0 completes without abort, whether
\* the storage was never pinned or all its handles have been dropped.
C6_DropAtZeroCompletes ==
    /\ (ret.op = "drop_storage" /\ ret.val = 0) =>
           /\ ret.ok
           /\ ~aborted
           /\ pc[Owner].at = "reclaim"
           /\ pc[Owner].s = ret.s
    /\ ret.op = "reclaim" => ~aborted /\ st[ret.s] = "reclaimed"

\* a never pinned storage passes the drop check after another storage, whose
\* handles were all dropped, was reclaimed
C6_Witness ==
    /\ ret.op = "drop_storage"
    /\ ret.ok
    /\ st[ret.s] = "unpinned"
    /\ \E s \in Storages : st[s] = "reclaimed" /\ ever[s]

\* C7: create_handle and clone abort the process when the count the increment
\* read exceeds half the maximum, and no increment is ever applied to the
\* maximum count, so the count never wraps.
C7_OverflowAborts ==
    /\ ret.op \in {"create_handle", "clone"} =>
           /\ ret.ok <=> ret.val <= (2 ^ CounterBits - 1) \div 2
           /\ ~ret.ok => aborted
    /\ \A t \in Threads :
           pc[t].at = "create_handle" => pc[t].old < 2 ^ CounterBits - 1

\* a clone hit the overflow guard
C7_Witness ==
    /\ ret.op = "clone"
    /\ ~ret.ok
    /\ ret.val = (2 ^ CounterBits - 1) \div 2 + 1
    /\ aborted

\* C8: on a PinArcStorage every increment and decrement takes effect exactly
\* once in every interleaving: the count is the number of live handles over
\* all threads plus the increments whose handle is not returned yet.
C8_NoLostUpdates ==
    \A s \in Storages :
        Kind(s) = "arc" => count[s] = Live(s) + InFlight(s)

\* one thread dropped a handle while another was inside an increment of the
\* same counter
C8_Witness ==
    /\ ret.op = "drop_handle"
    /\ Kind(ret.s) = "arc"
    /\ InFlight(ret.s) = 1
    /\ Live(ret.s) > 0

\* C9: when get_pin_mut grants access to a PinArcStorage (or its drop passes
\* the check), every access made through a handle, on any thread, happens
\* before it.
C9_AcquireSeesReleases ==
    (ret.op \in {"get_pin_mut", "drop_storage"} /\ ret.ok /\ Kind(ret.s) = "arc")
        => known[Owner] = Threads

\* access is granted after another thread read through a handle
C9_Witness ==
    /\ ret.op = "get_pin_mut"
    /\ ret.ok
    /\ Kind(ret.s) = "arc"
    /\ \E t \in Threads \ {Owner} : t \in accessed

\* C10: a storage fresh from new(v) has a ref_count of 0 and holds v.
C10_NewIsZero ==
    /\ ret.op = "new" => InnerCount(ret.s) = 0 /\ InnerValue(ret.s) = ret.val
    /\ (ret.op = "storage_ref_count" /\ st[ret.s] = "unpinned") => ret.val = 0
    /\ (ret.op = "storage_deref" /\ st[ret.s] = "unpinned") =>
           ret.val = last_written[ret.s]

\* ref_count of a fresh storage made with a nonzero value
C10_Witness ==
    /\ ret.op = "storage_ref_count"
    /\ st[ret.s] = "unpinned"
    /\ ret.val = 0
    /\ value[ret.s] = 1

\* C11: on a pinned storage s that holds v and has no handle yet, after
\* h = s.create_handle() the count is 1; while h is the only handle,
\* s.ref_count() and h.ref_count() both return 1; and *h is v, the value last
\* stored in s.
C11_FirstHandle ==
    /\ (ret.op = "create_handle" /\ ret.ok /\ ret.val = 0)
         => (InnerCount(ret.s) = 1 /\ Live(ret.s) = 1)
    /\ (/\ ret.op \in {"storage_ref_count", "handle_ref_count"}
        /\ Live(ret.s) = 1
        /\ InFlight(ret.s) = 0) => ret.val = 1
    /\ ret.op = "handle_deref" => ret.val = last_written[ret.s]

\* the only handle of a storage that holds MaxValue reported a count of one
C11_Witness ==
    /\ ret.op = "handle_ref_count"
    /\ ret.val = 1
    /\ Live(ret.s) = 1
    /\ InFlight(ret.s) = 0
    /\ last_written[ret.s] = MaxValue

\* C11 as stated, for every pinned storage: after any s.create_handle() that
\* returned, the count of s is 1.
C11_Original ==
    (ret.op = "create_handle" /\ ret.ok) => InnerCount(ret.s) = 1

\* C12: Handle.clone makes a handle to the record of the handle it is called
\* on: its increment raises the count of that record by exactly 1 and leaves
\* the count of every other storage alone, and its return adds one handle to
\* that same record, whose value and count are what both handles then read.
C12_CloneAddsOne ==
    [][\A t \in Threads :
        /\ (pc[t] = Idle /\ pc'[t].at = "create_handle" /\ pc'[t].via = "clone")
             => /\ handles[t][pc'[t].s] > 0
                /\ count'[pc'[t].s] = count[pc'[t].s] + 1
                /\ \A s2 \in Storages \ {pc'[t].s} : count'[s2] = count[s2]
                /\ handles' = handles
        /\ (pc[t].at = "create_handle" /\ pc[t].via = "clone" /\ pc'[t] = Idle)
             => /\ handles' = [handles EXCEPT ![t][pc[t].s] = @ + 1]
                /\ count' = count
                /\ value' = value
                /\ ret' = Ret("clone", pc[t].s, TRUE, pc[t].old)]_vars

\* a clone returned the second handle of a thread while the other storage had
\* a handle of its own
C12_Witness ==
    /\ ret.op = "clone"
    /\ ret.ok
    /\ \E t \in Threads : handles[t][ret.s] = 2
    /\ \E s2 \in Storages \ {ret.s} : count[s2] = 1 /\ Live(s2) = 1

\* C13: a create_handle that passes the overflow guard changes the count of its
\* storage by exactly +1 and adds one handle for the owner; the value, the
\* other counts, the state of the storages and every handle that existed
\* before stay as they were.
C13_CreateHandleFrame ==
    [][/\ (pc[Owner] = Idle /\ pc'[Owner].at = "create_handle"
                            /\ pc'[Owner].via = "create_handle")
            => /\ count' = [count EXCEPT ![pc'[Owner].s] = @ + 1]
               /\ handles' = handles
               /\ value' = value /\ st' = st /\ mutref' = mutref
       /\ (pc[Owner].at = "create_handle" /\ pc[Owner].via = "create_handle"
                                          /\ ~IsOverflow(pc[Owner].old)
                                          /\ pc'[Owner] = Idle)
            => /\ count' = count
               /\ handles' = [handles EXCEPT ![Owner][pc[Owner].s] = @ + 1]
               /\ value' = value /\ st' = st /\ mutref' = mutref]_vars

\* a create_handle on a storage that had one handle returned, and both handles
\* and the value are there
C13_Witness ==
    /\ ret.op = "create_handle"
    /\ ret.ok
    /\ ret.val = 1
    /\ count[ret.s] = 2
    /\ Live(ret.s) = 2
    /\ value[ret.s] = MaxValue

\* C14: when the count is nonzero, get_pin_mut returns None and nothing else
\* happens; create_handle has no such outcome and returns a handle at every
\* count up to MAX_REFCOUNT; a refused get_pin_mut is the only failure that
\* leaves the process running.
C14_NoAccess ==
    /\ (ret.op = "get_pin_mut" /\ count[ret.s] # 0)
         => (~ret.ok /\ ~aborted /\ ~mutref[ret.s])
    /\ (ret.op = "create_handle" /\ ~IsOverflow(ret.val)) => (ret.ok /\ ~aborted)
    /\ (~ret.ok /\ ~aborted) => ret.op = "get_pin_mut"

\* get_pin_mut was refused at a count of MAX_REFCOUNT, part of it leaked
C14_Witness ==
    /\ ret.op = "get_pin_mut"
    /\ ~ret.ok
    /\ ~aborted
    /\ count[ret.s] = MAX_REFCOUNT
    /\ forgotten[ret.s] > 0

\* C14 as stated: at a nonzero count both get_pin_mut and create_handle come
\* back without access and without ending the process.
C14_Original ==
    /\ (ret.op = "get_pin_mut" /\ count[ret.s] # 0) => (~ret.ok /\ ~aborted)
    /\ (ret.op = "create_handle" /\ ret.val # 0) => (~ret.ok /\ ~aborted)

\* C15: the value can be read through the storage and through every live
\* handle whatever the count is, the read returns the value last stored, and
\* a read of the value, a ref_count and a get_pin_mut, granted or refused,
\* leave every count as it was.
C15_ReadsLeaveCount ==
    /\ [](\A s \in Storages :
            /\ (OwnerReady /\ Alive(s) /\ ~mutref[s]) => ENABLED StorageDeref(s)
            /\ \A t \in Threads :
                  (~aborted /\ pc[t] = Idle /\ handles[t][s] > 0)
                    => ENABLED HandleDeref(t, s))
    /\ []((ret.op \in {"storage_deref", "handle_deref"})
            => (ret.ok /\ ret.val = last_written[ret.s]))
    /\ [][(ret'.op \in {"storage_deref", "handle_deref", "storage_ref_count",
                        "handle_ref_count", "get_pin_mut"}) => count' = count]_vars

\* the storage read its value while two handles were live
C15_Witness ==
    /\ ret.op = "storage_deref"
    /\ ret.val = MaxValue
    /\ count[ret.s] = 2
    /\ Live(ret.s) = 2

\* C16: no operation waits for another thread. A thread is always idle or one
\* step behind its single counter operation, and that step can be taken at
\* once; whenever the caller holds what an operation needs (the storage, or a
\* handle), the operation can be started whatever the count is and whatever
\* the other threads are in the middle of.
C16_NoBlocking ==
    /\ \A t \in Threads :
        /\ pc[t].at \in {"idle", "create_handle", "reclaim"}
        /\ (~aborted /\ pc[t].at = "create_handle") => ENABLED CreateHandleReturn(t)
        /\ \A s \in Storages :
              (~aborted /\ pc[t] = Idle /\ handles[t][s] > 0)
                => /\ ENABLED DropHandle(t, s)
                   /\ ENABLED HandleRefCount(t, s)
                   /\ (Total(Storages) < MaxHandles) => ENABLED CloneHandle(t, s)
    /\ (~aborted /\ pc[Owner].at = "reclaim") => ENABLED Reclaim
    /\ \A s \in Storages :
        /\ (~aborted /\ pc[Owner] = Idle /\ Alive(s) /\ ~mutref[s])
             => (ENABLED DropStorage(s) /\ ENABLED StorageRefCount(s))
        /\ (~aborted /\ pc[Owner] = Idle /\ st[s] = "pinned" /\ ~mutref[s])
             => /\ ENABLED GetPinMut(s)
                /\ (Total(Storages) < MaxHandles) => ENABLED CreateHandle(s)

\* the storage's drop made its load while another thread was between the
\* fetch_add and the return of a clone of the same storage
C16_Witness ==
    /\ ret.op = "drop_storage"
    /\ \E t \in Threads \ {Owner} : pc[t].at = "create_handle" /\ pc[t].s = ret.s

\* C17: the debug assertion in the handle's drop never fails: whenever the
\* handles that create_handle and clone returned are dropped, each once, the
\* value the fetch_sub returns is strictly positive, and the count goes down
\* to one less without wrapping below 0.
C17_DropSeesPositive ==
    ret.op = "drop_handle"
        => (ret.ok /\ ret.val > 0 /\ count[ret.s] = ret.val - 1)

\* the last handle of the PinRcStorage was dropped: the fetch_sub returned 1
C17_Witness ==
    /\ ret.op = "drop_handle"
    /\ Kind(ret.s) = "rc"
    /\ ret.val = 1
    /\ count[ret.s] = 0
    /\ Live(ret.s) = 0

\* C18: in a build with unsafe_disable_abort the two checks fail under the same
\* conditions as without it: the storage's drop fails exactly when the count
\* it loads is nonzero, and an increment fails exactly when the old count is
\* above MAX_REFCOUNT. What changes is the outcome: the failure is a panic
\* that does not end the process, and the thread goes on (the owner's next
\* step after a failed drop can be taken).
C18_ToggleOutcome ==
    /\ unsafe_disable_abort
    /\ ret.op = "drop_storage" => (~ret.ok <=> ret.val # 0)
    /\ ret.op \in {"create_handle", "clone"} => (~ret.ok <=> ret.val > MAX_REFCOUNT)
    /\ ret.op \in {"drop_storage", "create_handle", "clone"} => ~aborted
    /\ (ret.op = "drop_storage" /\ ~ret.ok) => ENABLED Reclaim
    /\ aborted => ret.op = "use_after_free"

\* the program went on after both kinds of failure: an increment of the
\* storage failed earlier, its drop failed at a nonzero count, and the
\* unwinding gave its memory back while a handle was live
C18_Witness ==
    /\ ret.op = "reclaim"
    /\ ~aborted
    /\ failed[ret.s] > 0
    /\ count[ret.s] # 0
    /\ Live(ret.s) > 0

C20_HandleCountsItself ==
    ret.op = "handle_ref_count"
        => /\ ret.val >= 1
           /\ ret.val = InnerCount(ret.s)
           /\ Kind(ret.s) = "rc" => ret.val = Live(ret.s)

\* one of two handles of the PinRcStorage reported a count of two
C20_Witness ==
    /\ ret.op = "handle_ref_count"
    /\ Kind(ret.s) = "rc"
    /\ ret.val = 2
    /\ Live(ret.s) = 2

====
